---- MODULE Spec2Model ----
(***************************************************************************)
(* Model of src/exercise/02.extra-1.js (second, run-based version of the   *)
(* file, lines 148-322): the async reducer, useSafeDispatch, useAsync with *)
(* run, and the PokemonInfo / App / AppWithUnmountCheckbox views that own  *)
(* them.  The first, effect-driven version of useAsync (lines 1-146) is    *)
(* driven alongside by the same steps (stE, rawAfter).  The Counter of     *)
(* src/exercise/01.extra-1.js has its own variables and specification.     *)
(*                                                                         *)
(* React's scheduling is modelled as follows.  A render of the tree is one *)
(* step (Render, ToggleMount, ToggleUnmount).  The passive effects of a    *)
(* committed render are flushed in a later step (FlushEffects); futures    *)
(* may settle in between.  One flush runs the cleanups and then the        *)
(* effects of the component, in hook order, without interruption.  A       *)
(* render is never started while effects are still pending (React flushes  *)
(* them first).  Removing a component runs the cleanups of its effects in  *)
(* the same step.                                                          *)
(***************************************************************************)
EXTENDS Integers, Sequences, FiniteSets, TLC

(* ---------------------------- bounds ---------------------------------- *)
MaxInst == 3        \* PokemonInfo instances ever mounted
MaxRuns == 3        \* futures ever created by fetchPokemon
MaxLiveInst == 2    \* the same two bounds for the specification with
MaxLiveRuns == 2    \* fairness, SpecLive
MaxClicks == 4      \* clicks on the Counter's button

(* --------------------------- value domains ----------------------------- *)
Names == {"pikachu", "ZZZ"}
NoName == ""
Null == <<>>
NoDeps == "<no deps yet>"

DataOf(name) == <<"data", name>>
ErrorOf(name) == <<"error", name>>

VARIABLES
  mountApp,        \* AppWithUnmountCheckbox: the checkbox state
  pokemonName,     \* App: the input key
  boundary,        \* PokemonErrorBoundary: "ok" or "error"
  boundaryKey,     \* resetKeys of the boundary's last render
  cur,             \* index of the mounted PokemonInfo instance, 0 if none
  st,              \* per instance: the useReducer state
  mountedRef,      \* per instance: mountedRef.current
  renderedName,    \* per instance: pokemonName prop of the last render
  depName,         \* per instance: pokemonName dep of the last effect run
  effectsPending,  \* a committed render whose passive effects have not run
  dirty,           \* a state update is waiting for a re-render
  view,            \* what the last render of PokemonInfo produced
  promises,        \* every future created so far
  tornDown,        \* per instance: it has been unmounted
  atTeardown,      \* per instance: its state when it was unmounted
  unsafeAfter,     \* per instance: unsafeDispatch was invoked after unmount
  lifecycleOk,     \* per instance: attach/detach alternate, attach first
  statusSeq,       \* per instance: the statuses it went through
  log,             \* the guarded dispatch calls made by the last step
  lastOp,          \* the last step
  keyChanges,      \* per instance: committed renders that brought a new,
                   \* non-empty pokemonName (the first render included)
  stE,             \* per instance: the state the effect-driven useAsync
                   \* (lines 34-62) has under the same events
  rawAfter,        \* per instance: its plain dispatch ran after unmount
  count,           \* 01.extra-1.js Counter: the reducer state
  clicks,          \* Counter: clicks so far
  initialCount,    \* Counter: the initialCount prop
  step             \* Counter: the step prop

appVars == <<mountApp, pokemonName, boundary, boundaryKey, cur, st,
             mountedRef, renderedName, depName, effectsPending, dirty, view,
             promises, tornDown, atTeardown, unsafeAfter, lifecycleOk,
             statusSeq, log, lastOp, keyChanges, stE, rawAfter>>

counterVars == <<count, clicks, initialCount, step>>

vars == <<appVars, counterVars>>

Statuses == {"idle", "pending", "resolved", "rejected"}

NInst == Len(st)

(* ------------------------------ reducer -------------------------------- *)
(* Variant: the resolved case writes a status the view does not know.     *)
reducerBadStatus(state, action) ==
  CASE action.type = "pending" ->
         [status |-> "pending", data |-> Null, error |-> Null]
    [] action.type = "resolved" ->
         [status |-> "success", data |-> action.data, error |-> Null]
    [] action.type = "rejected" ->
         [status |-> "rejected", data |-> Null, error |-> action.error]
    [] OTHER -> state

(* Variant: the pending case keeps the previous data and error.           *)
reducerKeepsData(state, action) ==
  CASE action.type = "pending" ->
         [status |-> "pending", data |-> state.data, error |-> state.error]
    [] action.type = "resolved" ->
         [status |-> "resolved", data |-> action.data, error |-> Null]
    [] action.type = "rejected" ->
         [status |-> "rejected", data |-> Null, error |-> action.error]
    [] OTHER -> state

(* Variant: the rejected case reads action.data instead of action.error.  *)
reducerRejectedReadsData(state, action) ==
  CASE action.type = "pending" ->
         [status |-> "pending", data |-> Null, error |-> Null]
    [] action.type = "resolved" ->
         [status |-> "resolved", data |-> action.data, error |-> Null]
    [] action.type = "rejected" ->
         [status |-> "rejected", data |-> Null, error |-> action.data]
    [] OTHER -> state

reducer(state, action) ==
  CASE action.type = "pending" ->
         [status |-> "pending", data |-> Null, error |-> Null]
    [] action.type = "resolved" ->
         [status |-> "resolved", data |-> action.data, error |-> Null]
    [] action.type = "rejected" ->
         [status |-> "rejected", data |-> Null, error |-> action.error]
    [] OTHER -> state      \* throws: no new state is produced

(* Variant: the default case returns the state instead of throwing.       *)
reducerIgnoresUnknown(action) == FALSE

(* The default case of the reducer (lines 175-177) throws.                *)
reducerThrows(action) ==
  action.type \notin {"pending", "resolved", "rejected"}

PendingAction == [type |-> "pending", data |-> Null, error |-> Null]
ResolvedAction(d) == [type |-> "resolved", data |-> d, error |-> Null]
RejectedAction(e) == [type |-> "rejected", data |-> Null, error |-> e]

(* useReducer's initial state, useAsync lines 219-224 with the            *)
(* initialStatus PokemonInfo passes at lines 256-258.                     *)
InitialState(name) ==
  [status |-> IF name # NoName THEN "pending" ELSE "idle",
   data |-> Null, error |-> Null]

(* ------------------------ dispatching ---------------------------------- *)
(* The operators below transform a record w of the variables a dispatch   *)
(* can touch: st, dirty, unsafeAfter, log, promises.                      *)
World == [st |-> st, dirty |-> dirty, unsafeAfter |-> unsafeAfter,
          log |-> <<>>, promises |-> promises]

(* A throw of the reducer leaves the state as it was and reaches the      *)
(* caller; the log entry of the call records it.                          *)
unsafeDispatch(w, i, action) ==
  [w EXCEPT !.st[i] = IF reducerThrows(action) THEN @ ELSE reducer(@, action),
            !.dirty = @ \/ (i = cur /\ ~reducerThrows(action)),
            !.unsafeAfter[i] = @ \/ tornDown[i],
            !.log[Len(w.log)].forwarded = Append(@, action),
            !.log[Len(w.log)].threw = reducerThrows(action)]

(* Variant: no mountedRef check.                                          *)
dispatchUnguarded(w, i, action, flags) ==
  unsafeDispatch([w EXCEPT !.log = Append(@, [inst |-> i, action |-> action,
                                              flag |-> flags[i],
                                              forwarded |-> <<>>,
                                              threw |-> FALSE])],
                 i, action)

(* Variant: the mountedRef check is negated.                              *)
dispatchNegated(w, i, action, flags) ==
  LET w1 == [w EXCEPT !.log = Append(@, [inst |-> i, action |-> action,
                                         flag |-> flags[i],
                                         forwarded |-> <<>>,
                                         threw |-> FALSE])]
  IN IF ~flags[i] THEN unsafeDispatch(w1, i, action) ELSE w1

dispatch(w, i, action, flags) ==
  LET w1 == [w EXCEPT !.log = Append(@, [inst |-> i, action |-> action,
                                         flag |-> flags[i],
                                         forwarded |-> <<>>,
                                         threw |-> FALSE])]
  IN IF flags[i] THEN unsafeDispatch(w1, i, action) ELSE w1

(* fetchPokemon(name): a new future in flight, nobody subscribed yet.     *)
fetchPokemon(name) ==
  [name |-> name, state |-> "inflight", then |-> 0, late |-> FALSE,
   order |-> 0, overlap |-> FALSE]

(* promise.then(...) by instance i: the future joins those in flight.     *)
(* overlap records that two futures of one instance were in flight at the *)
(* same time.                                                             *)
Subscribe(ps, promise, i) ==
  LET others == {k \in 1..Len(ps) : ps[k].then = i /\ ps[k].state = "inflight"}
  IN Append([k \in 1..Len(ps) |->
               IF k \in others THEN [ps[k] EXCEPT !.overlap = TRUE] ELSE ps[k]],
            [promise EXCEPT !.then = i, !.overlap = (others # {})])

(* Variant: the falsy check comes after the pending dispatch.             *)
runLateCheck(w, i, promise, flags) ==
  LET w1 == dispatch(w, i, PendingAction, flags)
  IN IF promise = Null
       THEN w1
       ELSE [w1 EXCEPT !.promises = Subscribe(@, promise, i)]

(* Variant: the pending dispatch is missing.                              *)
runNoPending(w, i, promise, flags) ==
  IF promise = Null
    THEN w
    ELSE [w EXCEPT !.promises = Subscribe(@, promise, i)]

(* run(promise): promise is Null or a future that was just created.       *)
run(w, i, promise, flags) ==
  IF promise = Null
    THEN w
    ELSE LET w1 == dispatch(w, i, PendingAction, flags)
         IN [w1 EXCEPT !.promises = Subscribe(@, promise, i)]

(* The callbacks run passes to promise.then (lines 237-242), called when  *)
(* future p settles: ok is success, the value is the data or the error.   *)
(* Variant: promise.then is given the success callback only.              *)
onSettledNoFailure(w, p, ok, flags) ==
  IF ok THEN dispatch(w, p.then, ResolvedAction(DataOf(p.name)), flags)
        ELSE w

(* Variant: an outcome is ignored unless the status is still pending.     *)
onSettledIfPending(w, p, ok, flags) ==
  IF w.st[p.then].status = "pending"
    THEN dispatch(w, p.then,
                  IF ok THEN ResolvedAction(DataOf(p.name))
                        ELSE RejectedAction(ErrorOf(p.name)),
                  flags)
    ELSE w

onSettled(w, p, ok, flags) ==
  dispatch(w, p.then,
           IF ok THEN ResolvedAction(DataOf(p.name))
                 ELSE RejectedAction(ErrorOf(p.name)),
           flags)

(* ------------------------------ view ----------------------------------- *)
(* Variant: the status is looked at before the missing name.              *)
ViewStatusFirst(name, status) ==
  IF status = "idle" THEN "prompt"
  ELSE IF status = "pending" THEN "loading"
  ELSE IF status = "rejected" THEN "throw"
  ELSE IF status = "resolved" THEN "data"
  ELSE IF name = NoName THEN "prompt"
  ELSE "impossible"

(* Variant: the rejected branch renders instead of throwing the error.    *)
ViewNoThrow(name, status) ==
  IF status = "idle" \/ name = NoName THEN "prompt"
  ELSE IF status = "pending" THEN "loading"
  ELSE IF status = "rejected" THEN "data"
  ELSE IF status = "resolved" THEN "data"
  ELSE "impossible"

View(name, status) ==
  IF status = "idle" \/ name = NoName THEN "prompt"
  ELSE IF status = "pending" THEN "loading"
  ELSE IF status = "rejected" THEN "throw"
  ELSE IF status = "resolved" THEN "data"
  ELSE "impossible"

(* ------------------- the effect-driven useAsync ------------------------ *)
(* First version of the file, lines 1-146.  Its state is kept next to the *)
(* state of the run-based version and is driven by the same renders,      *)
(* effect flushes and settles.                                            *)
asyncReducer(state, action) ==
  CASE action.type = "pending" ->
         [status |-> "pending", data |-> Null, error |-> Null]
    [] action.type = "resolved" ->
         [status |-> "resolved", data |-> action.data, error |-> Null]
    [] action.type = "rejected" ->
         [status |-> "rejected", data |-> Null, error |-> action.error]
    [] OTHER -> state      \* throws: no new state is produced

InitialStateEffect(name) ==
  [status |-> IF name # NoName THEN "pending" ELSE "idle",
   data |-> Null, error |-> Null]

(* asyncCallback (lines 69-77): no future without a name.                 *)
asyncCallback(name) == IF name = NoName THEN Null ELSE fetchPokemon(name)

(* The dispatch useReducer returns (line 35), used as it is.              *)
rawDispatch(sE, i, action) == [sE EXCEPT ![i] = asyncReducer(@, action)]

(* The body of the effect (lines 42-58) up to promise.then.               *)
useAsyncEffect(sE, i, promise) ==
  IF promise = Null THEN sE ELSE rawDispatch(sE, i, PendingAction)

(* The callbacks passed to promise.then (lines 52-57).                    *)
onSettledEffect(sE, p, ok) ==
  rawDispatch(sE, p.then,
              IF ok THEN ResolvedAction(DataOf(p.name))
                    ELSE RejectedAction(ErrorOf(p.name)))

(* ----------------------------- Counter --------------------------------- *)
(* src/exercise/01.extra-1.js.  Props of Counter and their defaults       *)
(* (line 6).                                                              *)
DefaultInitialCount == 0
DefaultStep == 1
InitialCounts == -2..2
Steps == -2..3

(* Variant: the reducer replaces the count by the dispatched value.       *)
countReducerReplaces(state, newState) == newState

(* countReducer (lines 9-11).                                             *)
countReducer(state, newState) == state + newState

(* ------------------------------ Init ----------------------------------- *)
InitApp ==
  /\ mountApp = TRUE
  /\ pokemonName = NoName
  /\ boundary = "ok"
  /\ boundaryKey = NoName
  /\ cur = 1
  /\ st = <<InitialState(NoName)>>
  /\ mountedRef = <<FALSE>>
  /\ renderedName = <<NoName>>
  /\ depName = <<NoDeps>>
  /\ effectsPending = TRUE
  /\ dirty = FALSE
  /\ view = View(NoName, "idle")
  /\ promises = <<>>
  /\ tornDown = <<FALSE>>
  /\ atTeardown = <<Null>>
  /\ unsafeAfter = <<FALSE>>
  /\ lifecycleOk = <<TRUE>>
  /\ statusSeq = << <<"idle">> >>
  /\ log = <<>>
  /\ lastOp = [op |-> "Init", inst |-> 1, arg |-> 0]
  /\ keyChanges = <<0>>
  /\ stE = <<InitialStateEffect(NoName)>>
  /\ rawAfter = <<FALSE>>

(* <Counter /> as App of 01.extra-1.js renders it (line 18): both props   *)
(* take their defaults, useReducer starts from initialCount (line 7).     *)
Init ==
  /\ InitApp
  /\ initialCount = DefaultInitialCount
  /\ step = DefaultStep
  /\ count = initialCount
  /\ clicks = 0

(* A Counter rendered with any props.                                     *)
InitCounter ==
  /\ InitApp
  /\ initialCount \in InitialCounts
  /\ step \in Steps
  /\ count = initialCount
  /\ clicks = 0

(* ------------------------- helper updates ------------------------------ *)
Commit(w) ==
  /\ st' = w.st
  /\ dirty' = w.dirty
  /\ unsafeAfter' = w.unsafeAfter
  /\ log' = w.log
  /\ promises' = w.promises
  /\ statusSeq' = [i \in 1..NInst |->
                    IF w.st[i].status # st[i].status
                      THEN Append(statusSeq[i], w.st[i].status)
                      ELSE statusSeq[i]]

(* The cleanup returned by useSafeDispatch's effect (lines 208-210).      *)
(* Variant: the effect returns no cleanup.                                *)
SafeDispatchCleanupMissing(flags, i) == flags

SafeDispatchCleanup(flags, i) == [flags EXCEPT ![i] = FALSE]

(* The body of useSafeDispatch's effect (line 207).                       *)
SafeDispatchEffect(flags, i) == [flags EXCEPT ![i] = TRUE]

(* Unmounting instance i: its effect cleanups run, its state is dropped.  *)
Teardown(i) ==
  /\ mountedRef' = SafeDispatchCleanup(mountedRef, i)
  /\ lifecycleOk' = [lifecycleOk EXCEPT ![i] = @ /\ mountedRef[i]]
  /\ tornDown' = [tornDown EXCEPT ![i] = TRUE]
  /\ atTeardown' = [atTeardown EXCEPT ![i] = st[i]]

NoTeardown ==
  UNCHANGED <<mountedRef, lifecycleOk, tornDown, atTeardown>>

(* First render of a new PokemonInfo instance with prop name.             *)
MountInstance(name) ==
  /\ cur' = NInst + 1
  /\ st' = Append(st, InitialState(name))
  /\ mountedRef' = Append(mountedRef, FALSE)
  /\ renderedName' = Append(renderedName, name)
  /\ depName' = Append(depName, NoDeps)
  /\ effectsPending' = TRUE
  /\ view' = View(name, InitialState(name).status)
  /\ tornDown' = Append(tornDown, FALSE)
  /\ atTeardown' = Append(atTeardown, Null)
  /\ unsafeAfter' = Append(unsafeAfter, FALSE)
  /\ lifecycleOk' = Append(lifecycleOk, TRUE)
  /\ statusSeq' = Append(statusSeq, <<InitialState(name).status>>)
  /\ keyChanges' = Append(keyChanges, IF name # NoName THEN 1 ELSE 0)
  /\ stE' = Append(stE, InitialStateEffect(name))
  /\ rawAfter' = Append(rawAfter, FALSE)

(* PokemonInfo's effect has the dependencies [pokemonName, run] (line     *)
(* 265); run keeps its identity, so they change with pokemonName only.    *)
(* Variant: no dependency list, the effect runs after every render.       *)
DepsAlwaysChanged(i) == TRUE

DepsChanged(i) == depName[i] # renderedName[i]

(* The effect-driven version depends on [asyncCallback] (line 59), which  *)
(* useCallback renews when pokemonName changes (lines 69-77).             *)
(* Variant: asyncCallback is not wrapped in useCallback and is new in     *)
(* every render.                                                          *)
CallbackAlwaysChanged(i) == TRUE

CallbackChanged(i) == depName[i] # renderedName[i]

(* Hook order: useSafeDispatch's effect (line 206, called from useAsync   *)
(* at line 227, line 256) is registered before PokemonInfo's effect (line *)
(* 260), so run sees the flags the former has left.                       *)
(* Variant: the effect that calls run comes first.                        *)
FlagsAtRunEffectFirst(afterCleanup, afterEffect) == afterCleanup

FlagsAtRun(afterCleanup, afterEffect) == afterEffect

(* The effect of the last committed render will call run with a future.   *)
PendingEffectRun ==
  /\ cur # 0
  /\ effectsPending
  /\ DepsChanged(cur)
  /\ renderedName[cur] # NoName

Inflight == {k \in 1..Len(promises) : promises[k].state = "inflight"}
Settled == {k \in 1..Len(promises) : promises[k].state # "inflight"}

(* ------------------------------ actions -------------------------------- *)
(* A setState made by an event handler is rendered before the handler's   *)
(* event is over: after Submit or TryAgain the next step is Render.       *)
EventInProgress == lastOp.op \in {"Submit", "TryAgain"}

(* PokemonForm onSubmit -> handleSubmit -> setPokemonName(n).  Pending    *)
(* effects and a pending state update are processed before the event.     *)
Submit(n) ==
  /\ mountApp
  /\ ~effectsPending
  /\ ~dirty
  /\ ~EventInProgress
  /\ n # pokemonName
  /\ Len(promises) + (IF PendingEffectRun THEN 1 ELSE 0) < MaxRuns
  /\ boundary = "error" => NInst < MaxInst
  /\ pokemonName' = n
  /\ dirty' = TRUE
  /\ log' = <<>>
  /\ lastOp' = [op |-> "Submit", inst |-> cur, arg |-> 0]
  /\ UNCHANGED <<mountApp, boundary, boundaryKey, cur, st, mountedRef,
                 renderedName, depName, effectsPending, view, promises,
                 tornDown, atTeardown, unsafeAfter, lifecycleOk, statusSeq,
                 keyChanges, stE, rawAfter>>
  /\ UNCHANGED counterVars

(* The boundary's fallback "try again": onReset -> handleReset.           *)
TryAgain ==
  /\ mountApp
  /\ ~effectsPending
  /\ ~EventInProgress
  /\ boundary = "error"
  /\ NInst < MaxInst
  /\ pokemonName' = NoName
  /\ dirty' = TRUE
  /\ log' = <<>>
  /\ lastOp' = [op |-> "TryAgain", inst |-> cur, arg |-> 0]
  /\ UNCHANGED <<mountApp, boundary, boundaryKey, cur, st, mountedRef,
                 renderedName, depName, effectsPending, view, promises,
                 tornDown, atTeardown, unsafeAfter, lifecycleOk, statusSeq,
                 keyChanges, stE, rawAfter>>
  /\ UNCHANGED counterVars

(* PokemonErrorBoundary with resetKeys = [pokemonName] (line 296): in its *)
(* error state it resets when the key differs from that of its last       *)
(* render.                                                                *)
BoundaryResets == pokemonName # boundaryKey

(* A re-render of App and what is below it.                               *)
Render ==
  /\ mountApp
  /\ dirty
  /\ ~effectsPending
  /\ dirty' = FALSE
  /\ log' = <<>>
  /\ boundaryKey' = pokemonName
  /\ lastOp' = [op |-> "Render", inst |-> cur, arg |-> 0]
  /\ UNCHANGED <<mountApp, pokemonName, promises>>
  /\ UNCHANGED counterVars
  /\ IF boundary = "error"
       THEN IF BoundaryResets
              THEN /\ boundary' = "ok"
                   /\ MountInstance(pokemonName)
              ELSE UNCHANGED <<boundary, cur, st, mountedRef, renderedName,
                               depName, effectsPending, view, tornDown,
                               atTeardown, unsafeAfter, lifecycleOk,
                               statusSeq, keyChanges, stE, rawAfter>>
       ELSE IF View(pokemonName, st[cur].status) \in {"throw", "impossible"}
              THEN /\ boundary' = "error"
                   /\ cur' = 0
                   /\ view' = IF View(pokemonName, st[cur].status) = "throw"
                                THEN "fallback" ELSE "impossible"
                   /\ Teardown(cur)
                   /\ UNCHANGED <<st, renderedName, depName, effectsPending,
                                  unsafeAfter, statusSeq, keyChanges, stE,
                                  rawAfter>>
              ELSE /\ renderedName' = [renderedName EXCEPT ![cur] = pokemonName]
                   /\ effectsPending' = TRUE
                   /\ view' = View(pokemonName, st[cur].status)
                   /\ NoTeardown
                   /\ keyChanges' =
                        [keyChanges EXCEPT
                           ![cur] = IF /\ pokemonName # renderedName[cur]
                                       /\ pokemonName # NoName
                                      THEN @ + 1 ELSE @]
                   /\ UNCHANGED <<boundary, cur, st, depName, unsafeAfter,
                                  statusSeq, stE, rawAfter>>

(* The passive effects of the last committed render of PokemonInfo:       *)
(* useSafeDispatch's effect (no dependency list: cleanup, then body),     *)
(* then PokemonInfo's effect when [pokemonName, run] changed.             *)
FlushEffects ==
  /\ mountApp
  /\ cur # 0
  /\ effectsPending
  /\ LET i == cur
         name == renderedName[i]
         hadEffect == depName[i] # NoDeps
         flags1 == IF hadEffect THEN SafeDispatchCleanup(mountedRef, i)
                                ELSE mountedRef
         flags2 == SafeDispatchEffect(flags1, i)
         calls == DepsChanged(i) /\ name # NoName
         w == IF calls
                THEN run(World, i, fetchPokemon(name),
                         FlagsAtRun(flags1, flags2))
                ELSE World
     IN /\ calls => Len(promises) < MaxRuns
        /\ mountedRef' = flags2
        /\ lifecycleOk' = [lifecycleOk EXCEPT
                             ![i] = /\ @
                                    /\ hadEffect => mountedRef[i]
                                    /\ ~flags1[i]]
        /\ depName' = [depName EXCEPT ![i] = name]
        /\ effectsPending' = FALSE
        /\ Commit(w)
        /\ lastOp' = [op |-> "FlushEffects", inst |-> i,
                      arg |-> IF calls THEN Len(w.promises) ELSE 0]
        /\ stE' = IF CallbackChanged(i)
                    THEN useAsyncEffect(stE, i, asyncCallback(name))
                    ELSE stE
  /\ UNCHANGED <<mountApp, pokemonName, boundary, boundaryKey, cur,
                 renderedName, view, tornDown, atTeardown, keyChanges,
                 rawAfter>>
  /\ UNCHANGED counterVars

(* A future settles; its then-callbacks (lines 237-242) run.              *)
Settle(k, ok) ==
  /\ k \in Inflight
  /\ ~EventInProgress
  /\ LET p == promises[k]
         w0 == [World EXCEPT
                  !.promises[k].state = IF ok THEN "fulfilled" ELSE "rejected",
                  !.promises[k].late = (p.then # 0 /\ tornDown[p.then]),
                  !.promises[k].order = Cardinality(Settled) + 1]
         w1 == IF p.then # 0 THEN onSettled(w0, p, ok, mountedRef) ELSE w0
     IN /\ Commit(w1)
        /\ lastOp' = [op |-> "Settle", inst |-> p.then, arg |-> k]
        /\ stE' = IF p.then # 0 THEN onSettledEffect(stE, p, ok) ELSE stE
        /\ rawAfter' = IF p.then # 0
                         THEN [rawAfter EXCEPT ![p.then] = @ \/ tornDown[p.then]]
                         ELSE rawAfter
  /\ UNCHANGED <<mountApp, pokemonName, boundary, boundaryKey, cur,
                 mountedRef, renderedName, depName, effectsPending, view,
                 tornDown, atTeardown, lifecycleOk, keyChanges>>
  /\ UNCHANGED counterVars

(* The checkbox is cleared: App and everything below it is unmounted.     *)
ToggleUnmount ==
  /\ mountApp
  /\ ~effectsPending
  /\ ~EventInProgress
  /\ mountApp' = FALSE
  /\ pokemonName' = NoName
  /\ boundary' = "ok"
  /\ boundaryKey' = NoName
  /\ cur' = 0
  /\ dirty' = FALSE
  /\ view' = "none"
  /\ log' = <<>>
  /\ lastOp' = [op |-> "ToggleUnmount", inst |-> cur, arg |-> 0]
  /\ IF cur # 0 THEN Teardown(cur) ELSE NoTeardown
  /\ UNCHANGED <<st, renderedName, depName, effectsPending, promises,
                 unsafeAfter, statusSeq, keyChanges, stE, rawAfter>>
  /\ UNCHANGED counterVars

(* The checkbox is set: a fresh App is mounted, pokemonName = ''.         *)
ToggleMount ==
  /\ ~mountApp
  /\ NInst < MaxInst
  /\ mountApp' = TRUE
  /\ MountInstance(NoName)
  /\ dirty' = FALSE
  /\ log' = <<>>
  /\ lastOp' = [op |-> "ToggleMount", inst |-> NInst + 1, arg |-> 0]
  /\ UNCHANGED <<pokemonName, boundary, boundaryKey, promises>>
  /\ UNCHANGED counterVars

Next ==
  \/ \E n \in Names : Submit(n)
  \/ TryAgain
  \/ Render
  \/ FlushEffects
  \/ \E k \in 1..MaxRuns, ok \in BOOLEAN : Settle(k, ok)
  \/ ToggleUnmount
  \/ ToggleMount

Spec == Init /\ [][Next]_vars

(* The host of useAsync calling run with no future (a falsy value).       *)
RunNoFuture ==
  /\ mountApp
  /\ cur # 0
  /\ ~EventInProgress
  /\ depName[cur] # NoDeps
  /\ Commit(run(World, cur, Null, mountedRef))
  /\ lastOp' = [op |-> "RunNoFuture", inst |-> cur, arg |-> 0]
  /\ UNCHANGED <<mountApp, pokemonName, boundary, boundaryKey, cur,
                 mountedRef, renderedName, depName, effectsPending, view,
                 tornDown, atTeardown, lifecycleOk, keyChanges, stE, rawAfter>>
  /\ UNCHANGED counterVars

NextHook == Next \/ RunNoFuture

SpecHook == Init /\ [][NextHook]_vars

(* The program when React renders every pending update and flushes every *)
(* pending effect, and every future that was issued settles.              *)
SubmitLive(n) ==
  /\ Len(promises) < MaxLiveRuns
  /\ boundary = "error" => NInst < MaxLiveInst
  /\ Submit(n)

TryAgainLive == NInst < MaxLiveInst /\ TryAgain

ToggleMountLive == NInst < MaxLiveInst /\ ToggleMount

NextLive ==
  \/ \E n \in Names : SubmitLive(n)
  \/ TryAgainLive
  \/ Render
  \/ FlushEffects
  \/ \E k \in 1..MaxRuns, ok \in BOOLEAN : Settle(k, ok)
  \/ ToggleUnmount
  \/ ToggleMountLive

SpecLive ==
  /\ Init
  /\ [][NextLive]_vars
  /\ WF_vars(Render)
  /\ WF_vars(FlushEffects)
  /\ WF_vars(\E k \in 1..MaxRuns, ok \in BOOLEAN : Settle(k, ok))

(* PokemonInfo under a host that can also pass an empty pokemonName to a  *)
(* machine that has run (PokemonForm submitting the empty string).        *)
NextForm == Next \/ Submit(NoName)

SpecForm == Init /\ [][NextForm]_vars

(* An action of a kind the reducer does not know reaches the reducer of   *)
(* the mounted instance.                                                  *)
UnknownAction == [type |-> "bogus", data |-> Null, error |-> Null]

DispatchUnknown ==
  /\ mountApp
  /\ cur # 0
  /\ ~EventInProgress
  /\ depName[cur] # NoDeps
  /\ Commit(dispatch(World, cur, UnknownAction, mountedRef))
  /\ lastOp' = [op |-> "DispatchUnknown", inst |-> cur, arg |-> 0]
  /\ UNCHANGED <<mountApp, pokemonName, boundary, boundaryKey, cur,
                 mountedRef, renderedName, depName, effectsPending, view,
                 tornDown, atTeardown, lifecycleOk, keyChanges, stE, rawAfter>>
  /\ UNCHANGED counterVars

NextReducer == Next \/ DispatchUnknown

SpecReducer == Init /\ [][NextReducer]_vars

(* increment (line 13): the button's onClick dispatches step; the render  *)
(* that follows shows the new count.                                      *)
increment ==
  /\ clicks < MaxClicks
  /\ count' = countReducer(count, step)
  /\ clicks' = clicks + 1
  /\ UNCHANGED <<appVars, initialCount, step>>

SpecCounter == InitCounter /\ [][increment]_vars

TypeOK ==
  /\ mountApp \in BOOLEAN
  /\ pokemonName \in Names \cup {NoName}
  /\ boundary \in {"ok", "error"}
  /\ cur \in 0..NInst
  /\ NInst \in 1..MaxInst
  /\ Len(promises) <= MaxRuns
  /\ \A i \in 1..NInst : st[i].status \in Statuses
  /\ (cur = 0) = (~mountApp \/ boundary = "error")
  /\ effectsPending => cur # 0
  /\ count \in Int
  /\ clicks \in 0..MaxClicks

(* ------------------------- derived notions ----------------------------- *)
Instances == 1..NInst
Futures == 1..Len(promises)
FuturesOf(i) == {k \in Futures : promises[k].then = i}

OutcomeState(p) ==
  IF p.state = "fulfilled"
    THEN [status |-> "resolved", data |-> DataOf(p.name), error |-> Null]
    ELSE [status |-> "rejected", data |-> Null, error |-> ErrorOf(p.name)]

LastSettledOf(i) ==
  CHOOSE k \in FuturesOf(i) :
    \A j \in FuturesOf(i) : promises[j].order <= promises[k].order

RanWithFuture == lastOp.op = "FlushEffects" /\ lastOp.arg # 0

(* ------------------------------ claims --------------------------------- *)

(* C1: after teardown of the owning view no state mutation happens: a     *)
(* dispatch for a torn-down instance is dropped, unsafeDispatch is never  *)
(* invoked for it, and its state stays what it was at teardown.           *)
C1_NoMutationAfterTeardown ==
  \A i \in Instances :
    tornDown[i] =>
      /\ st[i] = atTeardown[i]
      /\ ~unsafeAfter[i]
      /\ \A n \in 1..Len(log) : log[n].inst = i => log[n].forwarded = <<>>

(* C1 witness: a future in flight at teardown of a pending instance has   *)
(* succeeded afterwards.                                                  *)
C1_Witness ==
  \E k \in Futures :
    /\ promises[k].late
    /\ promises[k].state = "fulfilled"
    /\ atTeardown[promises[k].then].status = "pending"
    /\ lastOp = [op |-> "Settle", inst |-> promises[k].then, arg |-> k]

(* C2: the status of every instance is always one of idle, pending,       *)
(* resolved, rejected, and the view never reaches its final throw.        *)
C2_StatusIsOneOfFour ==
  /\ \A i \in Instances : st[i].status \in Statuses
  /\ view # "impossible"
  /\ \A i \in Instances : \A n \in Names \cup {NoName} :
       View(n, st[i].status) # "impossible"

(* C2 witness: after runs, settles, re-renders and teardowns one instance *)
(* is rejected, one resolved and one pending.                             *)
C2_Witness ==
  /\ \A s \in Statuses \ {"idle"} : \E i \in Instances : st[i].status = s
  /\ \E i \in Instances : tornDown[i]

(* C3: data is non-null only when the status is resolved and error is     *)
(* non-null only when the status is rejected.                             *)
C3_DataErrorMatchStatus ==
  \A i \in Instances :
    /\ st[i].data # Null => st[i].status = "resolved"
    /\ st[i].error # Null => st[i].status = "rejected"

(* C3 witness: an instance that was resolved is pending again, and        *)
(* another one is rejected.                                               *)
C3_Witness ==
  /\ \E i \in Instances :
       /\ st[i].status = "pending"
       /\ \E n \in 1..Len(statusSeq[i]) : statusSeq[i][n] = "resolved"
  /\ \E i \in Instances : st[i].status = "rejected" /\ st[i].error # Null

(* C4: run with no future changes nothing: the state is unchanged, no     *)
(* action is dispatched and no settle callback is registered.             *)
C4_RunNoFutureNoChange ==
  [][lastOp'.op = "RunNoFuture" =>
       /\ st' = st
       /\ log' = <<>>
       /\ promises' = promises
       /\ dirty' = dirty]_vars

(* C4 witness: run was called with no future on a resolved instance.      *)
C4_Witness ==
  /\ lastOp.op = "RunNoFuture"
  /\ st[lastOp.inst].status = "resolved"

(* C5 as stated: the status only becomes resolved or rejected from        *)
(* pending, and only becomes pending from idle, resolved or rejected,     *)
(* also when runs overlap.                                                *)
C5_Original ==
  [][\A i \in Instances :
       st'[i].status # st[i].status =>
         /\ st'[i].status \in {"resolved", "rejected"} =>
              st[i].status = "pending"
         /\ st'[i].status = "pending" =>
              st[i].status \in {"idle", "resolved", "rejected"}]_vars

(* C5 amended: the status only becomes pending from idle, resolved or     *)
(* rejected; it becomes resolved or rejected from pending, or, when two   *)
(* futures of the instance were in flight together, from the outcome the  *)
(* other of them left.                                                    *)
C5_TransitionGraph ==
  [][\A i \in Instances :
       st'[i].status # st[i].status =>
         /\ st'[i].status \in {"resolved", "rejected"} =>
              \/ st[i].status = "pending"
              \/ /\ lastOp'.op = "Settle"
                 /\ promises'[lastOp'.arg].overlap
                 /\ st[i].status \in {"resolved", "rejected"}
         /\ st'[i].status = "pending" =>
              st[i].status \in {"idle", "resolved", "rejected"}]_vars

(* C5 witness: a future that never overlapped another one has settled on  *)
(* a live instance that had been resolved and pending again before.       *)
C5_Witness ==
  /\ lastOp.op = "Settle"
  /\ ~promises[lastOp.arg].overlap
  /\ ~promises[lastOp.arg].late
  /\ statusSeq[lastOp.inst] = <<"idle", "pending", "resolved", "pending",
                                "rejected">>

(* C6: right after run was called with a future on a live instance the    *)
(* state is pending with data and error null.                             *)
C6_PendingAfterRun ==
  RanWithFuture =>
    st[lastOp.inst] = [status |-> "pending", data |-> Null, error |-> Null]

(* C6 witness: run was called with a future when the state was rejected.  *)
C6_Witness ==
  /\ RanWithFuture
  /\ Len(statusSeq[lastOp.inst]) >= 2
  /\ statusSeq[lastOp.inst][Len(statusSeq[lastOp.inst]) - 1] = "rejected"

(* The only future of instance i is k, and it settled while i was live.   *)
SingleRunSettled(i, k) ==
  /\ FuturesOf(i) = {k}
  /\ promises[k].state # "inflight"
  /\ ~promises[k].late

(* C7 as stated: after a single run that settled on a mounted view the    *)
(* state carries exactly the outcome and the statuses were idle, pending, *)
(* then the terminal status.                                              *)
C7_Original ==
  \A i \in Instances : \A k \in Futures :
    SingleRunSettled(i, k) =>
      /\ st[i] = OutcomeState(promises[k])
      /\ statusSeq[i] = <<"idle", "pending", st[i].status>>

(* C7 amended: the state carries exactly the outcome; the statuses were   *)
(* idle, pending, terminal for a view mounted with an empty input, and    *)
(* pending, terminal for a view mounted with a non-empty input.           *)
C7_SingleRunOutcome ==
  \A i \in Instances : \A k \in Futures :
    SingleRunSettled(i, k) =>
      /\ st[i] = OutcomeState(promises[k])
      /\ statusSeq[i] = IF statusSeq[i][1] = "idle"
                          THEN <<"idle", "pending", st[i].status>>
                          ELSE <<"pending", st[i].status>>

(* C7 witness: one single run succeeded and another single run failed.    *)
C7_Witness ==
  /\ \E i \in Instances : \E k \in Futures :
       SingleRunSettled(i, k) /\ promises[k].state = "fulfilled"
  /\ \E i \in Instances : \E k \in Futures :
       SingleRunSettled(i, k) /\ promises[k].state = "rejected"

(* C8: a new run does not cancel a prior one: once all futures of a live  *)
(* instance have settled, its state is the outcome of the one that        *)
(* settled last, whichever was issued last.                               *)
C8_LastSettledWins ==
  \A i \in Instances :
    (/\ ~tornDown[i]
     /\ FuturesOf(i) # {}
     /\ \A k \in FuturesOf(i) : promises[k].state # "inflight") =>
      st[i] = OutcomeState(promises[LastSettledOf(i)])

(* C8 witness: two overlapping runs, the earlier one settled last, the    *)
(* state holds its result while the later run's input is current.         *)
C8_Witness ==
  \E i \in Instances : \E k1, k2 \in FuturesOf(i) :
    /\ ~tornDown[i]
    /\ k1 < k2
    /\ promises[k1].overlap /\ promises[k2].overlap
    /\ promises[k2].order # 0
    /\ promises[k1].order > promises[k2].order
    /\ promises[k1].name # promises[k2].name
    /\ pokemonName = promises[k2].name
    /\ st[i] = OutcomeState(promises[k1])

(* C9: the guarded dispatch forwards an action to unsafeDispatch, once    *)
(* and unchanged, if and only if mountedRef.current is true at the call.  *)
C9_GuardedDispatch ==
  \A n \in 1..Len(log) :
    /\ lastOp.op = "Settle" => log[n].flag = mountedRef[log[n].inst]
    /\ log[n].flag => log[n].forwarded = <<log[n].action>>
    /\ ~log[n].flag => log[n].forwarded = <<>>

(* C9 witness: an action was dropped for an instance that had an action   *)
(* forwarded before.                                                      *)
C9_Witness ==
  \E n \in 1..Len(log) :
    /\ ~log[n].flag
    /\ log[n].forwarded = <<>>
    /\ st[log[n].inst].status = "resolved"

(* C10: the flag is true after attach and false after detach, attach and  *)
(* detach alternate, and after teardown the flag is false for good.       *)
C10_FlagLifecycle ==
  \A i \in Instances :
    /\ lifecycleOk[i]
    /\ tornDown[i] => ~mountedRef[i]
    /\ (~tornDown[i] /\ depName[i] # NoDeps) => mountedRef[i]
    /\ depName[i] = NoDeps => ~mountedRef[i]

(* C10 witness: one instance torn down by the boundary after re-renders,  *)
(* one by the checkbox, and a third one attached.                         *)
C10_Witness ==
  /\ \E i \in Instances : tornDown[i] /\ atTeardown[i].status = "rejected"
  /\ \E i \in Instances : tornDown[i] /\ atTeardown[i].status = "pending"
  /\ \E i \in Instances : ~tornDown[i] /\ mountedRef[i]

(* C11: an action whose kind is not pending, resolved or rejected makes   *)
(* the reducer throw and leaves status, data and error as they were.      *)
C11_UnknownActionThrows ==
  [][lastOp'.op = "DispatchUnknown" =>
       /\ st' = st
       /\ Len(log') = 1
       /\ log'[1].forwarded = <<UnknownAction>>
       /\ log'[1].threw]_vars

(* C11 witness: the unknown action reached the reducer of a resolved      *)
(* instance, which threw and kept the data.                               *)
C11_Witness ==
  /\ lastOp.op = "DispatchUnknown"
  /\ st[lastOp.inst].status = "resolved"
  /\ st[lastOp.inst].data # Null
  /\ log[1].threw

(* C12: one run is one attempt: the futures an instance has started are   *)
(* as many as the committed renders that brought it a new, non-empty      *)
(* pokemonName (its first render included), the one whose effect is still *)
(* to be flushed aside; re-renders after its own state transitions and a  *)
(* rejected outcome start nothing.                                        *)
RunsMatchKeyChanges ==
  \A i \in Instances :
    Cardinality(FuturesOf(i))
      + (IF i = cur /\ PendingEffectRun THEN 1 ELSE 0) = keyChanges[i]

(* Every submitted change of the key is rendered by a mounted instance    *)
(* whose effect is about to start the operation for it.                   *)
SubmitIsRendered ==
  (lastOp.op = "Submit" /\ lastOp'.op = "Render") =>
    /\ cur' # 0
    /\ renderedName'[cur'] = pokemonName
    /\ keyChanges'[cur'] = (IF cur' = cur THEN keyChanges[cur] ELSE 0) + 1
    /\ PendingEffectRun'

C12_OneRunPerKeyChange ==
  /\ []RunsMatchKeyChanges
  /\ [][SubmitIsRendered]_vars

(* C12 witness: an instance was re-rendered for pending and for rejected  *)
(* and started one future only; after the reset the next instance, with   *)
(* the input cleared, has flushed its effects and started none.           *)
C12_Witness ==
  \E i \in Instances :
    /\ tornDown[i]
    /\ statusSeq[i] = <<"idle", "pending", "rejected">>
    /\ Cardinality(FuturesOf(i)) = 1
    /\ keyChanges[i] = 1
    /\ cur \notin {0, i}
    /\ depName[cur] = NoName
    /\ FuturesOf(cur) = {}

(* A failure that settles on a mounted instance is kept as rejected with  *)
(* its error.                                                             *)
FailureIsCaptured ==
  (/\ lastOp'.op = "Settle"
   /\ promises'[lastOp'.arg].state = "rejected"
   /\ ~promises'[lastOp'.arg].late) =>
    st'[lastOp'.inst] =
      [status |-> "rejected", data |-> Null,
       error |-> ErrorOf(promises'[lastOp'.arg].name)]

(* A render of a rejected instance with a name throws: the boundary       *)
(* shows its fallback and the instance is unmounted with its error.       *)
RejectedIsRaised ==
  (/\ lastOp'.op = "Render"
   /\ cur # 0
   /\ st[cur].status = "rejected"
   /\ pokemonName # NoName) =>
    /\ boundary' = "error"
    /\ view' = "fallback"
    /\ cur' = 0
    /\ tornDown'[cur]
    /\ atTeardown'[cur].error # Null

(* The render after the boundary's reset mounts a new instance, idle,     *)
(* with the input cleared.                                                *)
ResetRecovers ==
  (lastOp.op = "TryAgain" /\ lastOp'.op = "Render") =>
    /\ boundary' = "ok"
    /\ pokemonName' = NoName
    /\ cur' = NInst + 1
    /\ st'[cur'] = [status |-> "idle", data |-> Null, error |-> Null]
    /\ view' = "prompt"

ListedOutput(name, status) ==
  IF name = NoName THEN {"prompt"}
  ELSE IF status = "pending" THEN {"loading"}
  ELSE IF status = "rejected" THEN {"fallback"}
  ELSE IF status = "resolved" THEN {"data"}
  ELSE {"prompt", "loading", "fallback", "data"}

(* C14: what a render of PokemonInfo produces is determined by the input  *)
(* and the status: no input, the prompt; otherwise pending, the loading   *)
(* placeholder; rejected, the error raised to the boundary; resolved, the *)
(* data; with no input the prompt is produced whatever the status.        *)
C14_ViewOutput ==
  /\ [][lastOp'.op = "Render" /\ cur # 0 =>
          /\ view' \in ListedOutput(pokemonName, st[cur].status)
          /\ (view' = "fallback") = (boundary' = "error")]_vars
  /\ [][cur' \notin {0, cur} =>
          view' \in ListedOutput(pokemonName', st'[cur'].status)
                      \ {"fallback"}]_vars

(* C14 witness: a render with an empty input has produced the prompt for  *)
(* an instance left resolved by an earlier run.                           *)
C14_Witness ==
  /\ lastOp.op = "Render"
  /\ cur # 0
  /\ renderedName[cur] = NoName
  /\ st[cur].status = "resolved"
  /\ view = "prompt"

(* C15: while the view is mounted no action is dropped: every guarded     *)
(* dispatch made for an instance that is not unmounted finds the flag     *)
(* true and is forwarded; between two steps the flag of a mounted         *)
(* instance is true once its first effects have run, and before that it   *)
(* has no future that could dispatch.                                     *)
C15_NoDropWhileMounted ==
  /\ \A n \in 1..Len(log) :
       ~tornDown[log[n].inst] =>
         log[n].flag /\ log[n].forwarded = <<log[n].action>>
  /\ \A i \in Instances :
       /\ (~tornDown[i] /\ depName[i] # NoDeps) => mountedRef[i]
       /\ depName[i] = NoDeps => FuturesOf(i) = {}

(* C15 witness: the first effects of an instance mounted with a name have *)
(* called run and its pending dispatch was forwarded.                     *)
C15_Witness ==
  /\ RanWithFuture
  /\ FuturesOf(lastOp.inst) = {lastOp.arg}
  /\ statusSeq[lastOp.inst] = <<"pending">>
  /\ Len(log) = 1
  /\ log[1].flag
  /\ log[1].forwarded = <<PendingAction>>

LoadingMounted(i) ==
  IF i <= NInst THEN ~tornDown[i] /\ st[i].status = "pending" ELSE FALSE

SettledOrUnmounted(i) ==
  IF i <= NInst
    THEN tornDown[i] \/ st[i].status \in {"resolved", "rejected"}
    ELSE FALSE

(* C16: no stuck loading: when every issued future settles, a pending     *)
(* status of an instance that stays mounted, entered by a run or as the   *)
(* initial status of an instance mounted with a name, is followed by      *)
(* resolved or rejected.                                                  *)
C16_NoStuckLoading ==
  \A i \in 1..MaxInst : LoadingMounted(i) ~> SettledOrUnmounted(i)

(* C16 witness: an instance mounted with a name, whose status was pending *)
(* from its first render on, has reached a terminal status.               *)
C16_Witness ==
  \E i \in Instances :
    /\ ~tornDown[i]
    /\ Len(statusSeq[i]) = 2
    /\ statusSeq[i][1] = "pending"
    /\ statusSeq[i][2] \in {"resolved", "rejected"}
    /\ st[i].status = statusSeq[i][2]

(* C17: under the same input changes and the same order of settlements    *)
(* the effect-driven useAsync and the run-based one with the guarded      *)
(* dispatch hold the same status, data and error for as long as the view  *)
(* is mounted; they differ only for an unmounted view, where the plain    *)
(* dispatch of the first has run and the guarded one of the second has    *)
(* dropped the action.                                                    *)
C17_VariantsAgreeWhileMounted ==
  \A i \in Instances :
    /\ ~tornDown[i] => stE[i] = st[i]
    /\ stE[i] # st[i] => (rawAfter[i] /\ st[i] = atTeardown[i])
    /\ rawAfter[i] => tornDown[i]
    /\ ~unsafeAfter[i]

(* C17 witness: a mounted instance went through pending to resolved in    *)
(* both versions, and for an unmounted one a future settled late, which   *)
(* changed the state of the effect-driven version only.                   *)
C17_Witness ==
  /\ \E j \in Instances :
       /\ ~tornDown[j]
       /\ statusSeq[j] = <<"idle", "pending", "resolved">>
       /\ stE[j] = st[j]
  /\ \E i \in Instances :
       /\ tornDown[i]
       /\ rawAfter[i]
       /\ stE[i] # st[i]

(* C18: after n clicks on the Counter's button with a fixed step the      *)
(* count is initialCount + n * step, the props defaulting to 0 and 1;     *)
(* the count changes in no step other than a click, in which the reducer  *)
(* adds the dispatched step to it.                                        *)
C18_CountAfterClicks ==
  /\ [](count = initialCount + clicks * step)
  /\ [][/\ step' = step
        /\ initialCount' = initialCount
        /\ count' # count => (clicks' = clicks + 1 /\ count' = count + step)]_vars

(* C18 witness: three clicks with step 2 from initialCount -1.            *)
C18_Witness ==
  /\ initialCount = -1
  /\ step = 2
  /\ clicks = 3
  /\ count = 5

====
